---- MODULE Spec2Model ----
(***************************************************************************)
(* Model of AgenticOrchestrator (orchestrator.py): relevance routing,      *)
(* concurrent dispatch of the agents' searches, aggregation and summary.   *)
(* One behaviour is one call of process_query on a freshly constructed     *)
(* orchestrator.  The agents and the completion backend are external: each *)
(* call to them returns any value of its type or raises.                   *)
(***************************************************************************)
EXTENDS Integers, Sequences, FiniteSets, TLC

\* ---- bounds of the model -------------------------------------------------
MaxAgents == 3      \* at most this many agents get registered
MaxExplicit == 2    \* longest specific_sources list a caller passes
MaxData == 2        \* longest data list a search returns
MaxFairAgents == 2  \* registered agents in the runs checked for progress

\* ---- program constants ---------------------------------------------------
\* models.AgentType, in declaration order (also the registration order)
AgentType == <<"jira", "github", "api", "filesystem", "video", "s3", "url">>

\* attributes AgenticOrchestrator.__init__ sets on the instance
InstanceAttrs == {"llm_client", "agents"}

None == "None"

\* ContentProcessor.__init__ defaults
DefaultChunkSize == 1000
DefaultOverlapSize == 200

\* ---- inputs ---------------------------------------------------------------
Prompts == {"q1", "q2"}

\* str(e) of the exceptions external calls raise
Errors == {"connection refused", "timeout"}

\* texts the completion backend returns; a text is kept as the list
\* text.split(',') yields
Replies == {<<"JIRA", " github">>, <<"Jira", "JIRA">>, <<"wiki", "API ">>, <<"">>}

\* llm_client.chat_completion returns a text or raises
ChatCompletion ==
  {[raised |-> FALSE, text |-> r, error |-> None] : r \in Replies}
  \cup {[raised |-> TRUE, text |-> <<>>, error |-> e] : e \in Errors}

Range(s) == {s[i] : i \in 1..Len(s)}

\* seq(S, n): the sequences over S of length <= n
RECURSIVE SeqsUpTo(_, _)
SeqsUpTo(S, n) ==
  IF n = 0 THEN {<<>>}
  ELSE LET shorter == SeqsUpTo(S, n - 1)
       IN shorter \cup {Append(s, x) : s \in {t \in shorter : Len(t) = n - 1}, x \in S}

\* the agent types a caller names in specific_sources: the two registered
\* first and the one registered last
ExplicitPool == {AgentType[1], AgentType[2], AgentType[Len(AgentType)]}

\* data of a response: n result records
Items(n) == [i \in 1..n |-> i]

\* str.strip().upper() followed by .lower() (lines 171, 173), on the tokens
\* the replies contain
StripLower(tok) ==
  CASE tok \in {"JIRA", "Jira"} -> "jira"
    [] tok = " github" -> "github"
    [] tok = "API " -> "api"
    [] tok = "wiki" -> "wiki"
    [] OTHER -> ""

VARIABLES
  agents,           \* self.agents: the registered agent types, in dict order
  request,          \* the QueryRequest of the call
  pc,               \* position of the process_query coroutine
  relIdx,           \* position of the loop over self.agents.items()
  relOutcome,       \* what each agent's is_relevant did in this call
  relevant_agents,  \* the list _determine_relevant_agents builds
  agent_tasks,      \* the (agent_type, task) list, with each task's state
  results,          \* the list process_query collects
  completions,      \* the chat_completion calls made, in order, and whether each raised
  exception,        \* str(e) caught by process_query's handler, or None
  response          \* the WorkflowResponse returned

NoRequest == [prompt |-> "", specific_sources |-> <<>>]
NoResponse == [query |-> "", agents_used |-> <<>>, results |-> <<>>,
               summary |-> [kind |-> "unset"], total_results |-> 0]

\* AgenticOrchestrator.health_check
VARIABLES
  hpc,              \* position of the health_check coroutine
  hcIdx,            \* position of its loop over self.agents.items()
  health_status,    \* the entries written so far, in insertion order
  hcError,          \* str(e) of the exception health_check raised, or None
  hcResult          \* the dictionary health_check returned

\* ContentIndex and the tasks that use it
VARIABLES
  chunks,           \* self.chunks
  index_by_source,  \* self.index_by_source
  index_by_type,    \* self.index_by_type
  observed          \* the last call made on the index and what it returned

\* ContentProcessor and one chunk_text call
VARIABLES
  chunk_size,       \* self.chunk_size
  overlap_size,     \* self.overlap_size
  text,             \* the text argument, a sequence of characters
  cpc,              \* position of chunk_text
  start,            \* the loop variable start
  emitted,          \* the list chunk_text builds and returns
  iterations        \* number of loop iterations executed

orchVars == <<request, pc, relIdx, relOutcome, relevant_agents,
              agent_tasks, results, completions, exception, response>>
healthVars == <<hpc, hcIdx, health_status, hcError, hcResult>>
indexVars == <<chunks, index_by_source, index_by_type, observed>>
chunkVars == <<chunk_size, overlap_size, text, cpc, start, emitted, iterations>>

vars == <<agents, orchVars, healthVars, indexVars, chunkVars>>

\* a dict with no key
EmptyDict == [k \in {} |-> <<>>]

\* no health_check call has been made
HealthIdle ==
  /\ hpc = "idle"
  /\ hcIdx = 0
  /\ health_status = <<>>
  /\ hcError = None
  /\ hcResult = [overall_healthy |-> FALSE, agents |-> <<>>, openai_configured |-> FALSE]

\* ContentIndex.__init__ (lines 192-195); no task uses the index
IndexIdle ==
  /\ chunks = <<>>
  /\ index_by_source = EmptyDict
  /\ index_by_type = EmptyDict
  /\ observed = [op |-> "none"]

\* ContentProcessor.__init__ with its defaults (line 46); no chunk_text call
ChunkerIdle ==
  /\ chunk_size = DefaultChunkSize
  /\ overlap_size = DefaultOverlapSize
  /\ text = <<>>
  /\ cpc = "idle"
  /\ start = 0
  /\ emitted = <<>>
  /\ iterations = 0

\* no process_query call has been made
OrchIdle ==
  /\ request = NoRequest
  /\ pc = "idle"
  /\ relIdx = 0
  /\ relOutcome = [i \in 1..Len(agents) |-> "none"]
  /\ relevant_agents = <<>>
  /\ agent_tasks = <<>>
  /\ results = <<>>
  /\ completions = <<>>
  /\ exception = None
  /\ response = NoResponse


\* _initialize_agents registers the agents in order inside one try block: a
\* constructor that raises leaves the agents before it registered
Init ==
  /\ agents \in {SubSeq(AgentType, 1, n) : n \in 0..MaxAgents}
  /\ request = NoRequest
  /\ pc = "idle"
  /\ relIdx = 0
  /\ relOutcome = [i \in 1..Len(agents) |-> "none"]
  /\ relevant_agents = <<>>
  /\ agent_tasks = <<>>
  /\ results = <<>>
  /\ completions = <<>>
  /\ exception = None
  /\ response = NoResponse
  /\ HealthIdle
  /\ IndexIdle
  /\ ChunkerIdle

\* ---- values the orchestrator builds --------------------------------------

\* a handler that drops the exception message
ErrorResponseNoMessage(agent_type, e) ==
  [agent_type |-> agent_type, success |-> FALSE, data |-> <<>>, error |-> None]

\* lines 78-83: the AgentResponse recorded for a search task that raised
ErrorResponse(agent_type, e) ==
  [agent_type |-> agent_type, success |-> FALSE, data |-> <<>>, error |-> e]

\* a total that forgets the `if result.success` filter
RECURSIVE TotalResultsAll(_)
TotalResultsAll(res) ==
  IF res = <<>> THEN 0 ELSE Len(Head(res).data) + TotalResultsAll(Tail(res))

\* line 90: sum(len(result.data) for result in results if result.success)
RECURSIVE TotalResults(_)
TotalResults(res) ==
  IF res = <<>> THEN 0
  ELSE (IF Head(res).success THEN Len(Head(res).data) ELSE 0) + TotalResults(Tail(res))

\* the agent_type of the entries of res whose success flag is flag, in order
RECURSIVE AgentNames(_, _)
AgentNames(res, flag) ==
  IF res = <<>> THEN <<>>
  ELSE (IF Head(res).success = flag THEN <<Head(res).agent_type>> ELSE <<>>)
       \o AgentNames(Tail(res), flag)

\* a basic summary that prints the "Failed to search" part unconditionally
BasicSummaryAlwaysFailed(res) ==
  LET successful_agents == AgentNames(res, TRUE)
      failed_agents == AgentNames(res, FALSE)
  IN [kind |-> "basic",
      parts |-> (IF successful_agents # <<>> THEN <<"Successfully searched">> ELSE <<>>)
                \o <<"Failed to search", "Total results found">>,
      successful |-> successful_agents,
      failed |-> failed_agents,
      total |-> TotalResults(res)]

\* _generate_basic_summary: the parts joined into the text, each with the
\* names or the count it prints
BasicSummary(res) ==
  LET successful_agents == AgentNames(res, TRUE)
      failed_agents == AgentNames(res, FALSE)
  IN [kind |-> "basic",
      parts |-> (IF successful_agents # <<>> THEN <<"Successfully searched">> ELSE <<>>)
                \o (IF failed_agents # <<>> THEN <<"Failed to search">> ELSE <<>>)
                \o <<"Total results found">>,
      successful |-> successful_agents,
      failed |-> failed_agents,
      total |-> TotalResults(res)]

\* a process_query without the outer handler: the exception reaches the caller
HandleExceptionReraise(prompt, e) ==
  [pc |-> "propagated", exception |-> e, response |-> NoResponse]

\* lines 101-110: the handler of process_query turns any exception into a
\* WorkflowResponse; the coroutine returns it
HandleException(prompt, e) ==
  [pc |-> "done",
   exception |-> e,
   response |-> [query |-> prompt, agents_used |-> <<>>, results |-> <<>>,
                 summary |-> [kind |-> "failed", error |-> e],
                 total_results |-> 0]]

\* ---- routing --------------------------------------------------------------

\* an explicit selection without the `if agent_type in self.agents` filter
ExplicitSelectionUnfiltered(specific_sources, registered) ==
  specific_sources

\* line 116: [agent_type for agent_type in specific_sources if agent_type in self.agents]
ExplicitSelection(specific_sources, registered) ==
  SelectSeq(specific_sources, LAMBDA t : t \in Range(registered))

\* a static tier that inserts at the front of the list
StaticPrepend(rel, agent_type, outcome) ==
  IF outcome = "true" THEN <<agent_type>> \o rel ELSE rel

\* lines 123-126: the effect of one is_relevant call on the list
StaticAppend(rel, agent_type, outcome) ==
  IF outcome = "true" THEN Append(rel, agent_type) ELSE rel

\* lines 169-179: parse the reply of the completion backend
RECURSIVE AiParse(_, _)
AiParse(tokens, registered) ==
  IF tokens = <<>> THEN <<>>
  ELSE LET agent_name == StripLower(Head(tokens))
       IN (IF agent_name \in Range(AgentType) /\ agent_name \in Range(registered)
           THEN <<agent_name>> ELSE <<>>)
          \o AiParse(Tail(tokens), registered)

\* lines 41-47, 112-118: process_query is called and enters
\* _determine_relevant_agents
ProcessQuery ==
  /\ pc = "idle"
  /\ \E prompt \in Prompts, specific_sources \in SeqsUpTo(ExplicitPool, MaxExplicit) :
       /\ request' = [prompt |-> prompt, specific_sources |-> specific_sources]
       /\ IF specific_sources # <<>>
          THEN /\ relevant_agents' = ExplicitSelection(specific_sources, agents)
               /\ pc' = "routed"
               /\ relIdx' = relIdx
          ELSE /\ relevant_agents' = <<>>
               /\ pc' = "is_relevant"
               /\ relIdx' = 1
  /\ UNCHANGED <<agents, relOutcome, agent_tasks, results, completions, exception, response>>
  /\ UNCHANGED <<healthVars, indexVars, chunkVars>>

\* lines 121-126: one iteration of the loop over self.agents.items()
IsRelevant ==
  /\ pc = "is_relevant"
  /\ relIdx <= Len(agents)
  /\ \E outcome \in {"true", "false", "raised"} :
       /\ relOutcome' = [relOutcome EXCEPT ![relIdx] = outcome]
       /\ relevant_agents' = StaticAppend(relevant_agents, agents[relIdx], outcome)
  /\ relIdx' = relIdx + 1
  /\ UNCHANGED <<agents, request, pc, agent_tasks, results, completions, exception, response>>
  /\ UNCHANGED <<healthVars, indexVars, chunkVars>>

\* lines 128-137 (with 139-183 and the handler at 101-110): what follows the
\* loop.  Line 129 reads self.openai_client when the list is empty.
DetermineFallback ==
  /\ pc = "is_relevant"
  /\ relIdx > Len(agents)
  /\ IF relevant_agents # <<>>
     THEN /\ pc' = "routed"
          /\ UNCHANGED <<relevant_agents, completions, exception, response>>
     ELSE IF "openai_client" \notin InstanceAttrs
     THEN LET h == HandleException(request.prompt,
                     "'AgenticOrchestrator' object has no attribute 'openai_client'")
          IN /\ pc' = h.pc
             /\ exception' = h.exception
             /\ response' = h.response
             /\ UNCHANGED <<relevant_agents, completions>>
     ELSE \E reply \in ChatCompletion :
            LET suggested == IF reply.raised THEN <<>> ELSE AiParse(reply.text, agents)
            IN /\ completions' = Append(completions, [purpose |-> "relevance", raised |-> reply.raised])
               /\ relevant_agents' = IF suggested # <<>> THEN suggested ELSE agents
               /\ pc' = "routed"
               /\ UNCHANGED <<exception, response>>
  /\ UNCHANGED <<agents, request, relIdx, relOutcome, agent_tasks, results>>
  /\ UNCHANGED <<healthVars, indexVars, chunkVars>>

\* ---- dispatch and aggregation --------------------------------------------

\* what an agent's search returns: a successful AgentResponse of its own
\* type with any number of records, or a failed one, with or without records
SearchReturns(agent_type) ==
  {[agent_type |-> agent_type, success |-> TRUE, data |-> Items(n), error |-> None] :
     n \in 0..MaxData}
  \cup {[agent_type |-> agent_type, success |-> FALSE, data |-> Items(n), error |-> e] :
          n \in {0, MaxData}, e \in Errors}

\* a dispatch that creates the first task only and leaves the others to be
\* created after it has been awaited
CreateFirstTaskOnly(relevant) ==
  <<[agent_type |-> relevant[1], state |-> "pending",
     result |-> ErrorResponse(relevant[1], None), exc |-> None]>>

\* lines 60-67: the loop that calls asyncio.create_task once per entry of
\* relevant_agents and contains no await
CreateSearchTasks(relevant) ==
  [i \in 1..Len(relevant) |->
     [agent_type |-> relevant[i], state |-> "pending",
      result |-> ErrorResponse(relevant[i], None), exc |-> None]]

\* lines 49-67: the early return on an empty selection, else one task per
\* entry of relevant_agents, created before the first await
CreateTasks ==
  /\ pc = "routed"
  /\ IF relevant_agents = <<>>
     THEN /\ response' = [query |-> request.prompt, agents_used |-> <<>>, results |-> <<>>,
                          summary |-> [kind |-> "no_relevant_agents"],
                          total_results |-> 0]
          /\ pc' = "done"
          /\ UNCHANGED agent_tasks
     ELSE /\ agent_tasks' = CreateSearchTasks(relevant_agents)
          /\ pc' = "await"
          /\ UNCHANGED response
  /\ UNCHANGED <<agents, request, relIdx, relOutcome, relevant_agents, results,
                 completions, exception>>
  /\ UNCHANGED <<healthVars, indexVars, chunkVars>>

\* the event loop runs a created task while process_query is suspended
TaskStart(i) ==
  /\ pc = "await"
  /\ agent_tasks[i].state = "pending"
  /\ agent_tasks' = [agent_tasks EXCEPT ![i].state = "running"]
  /\ UNCHANGED <<agents, request, pc, relIdx, relOutcome, relevant_agents, results,
                 completions, exception, response>>
  /\ UNCHANGED <<healthVars, indexVars, chunkVars>>

\* agent.search returns a response or raises
TaskFinish(i) ==
  /\ pc = "await"
  /\ agent_tasks[i].state = "running"
  /\ \/ \E r \in SearchReturns(agent_tasks[i].agent_type) :
          agent_tasks' = [agent_tasks EXCEPT ![i].state = "returned", ![i].result = r]
     \/ \E e \in Errors :
          agent_tasks' = [agent_tasks EXCEPT ![i].state = "raised", ![i].exc = e]
  /\ UNCHANGED <<agents, request, pc, relIdx, relOutcome, relevant_agents, results,
                 completions, exception, response>>
  /\ UNCHANGED <<healthVars, indexVars, chunkVars>>

\* a collection loop that never leaves
AwaitNextPcNeverLeaves(res, tasks) ==
  "await"

\* a collection loop that stops at the first failed outcome
AwaitNextPcFailFast(res, tasks) ==
  IF Len(res) = Len(tasks) \/ ~res[Len(res)].success THEN "summary" ELSE "await"

\* lines 71-87: where the coroutine goes after collecting an outcome
AwaitNextPc(res, tasks) ==
  IF Len(res) = Len(tasks) THEN "summary" ELSE "await"

\* a collection loop that walks agent_tasks from its last entry
NextAwaitedFromLast(res, tasks) ==
  Len(tasks) - Len(res)

\* line 71: the loop awaits the tasks in the order of agent_tasks
NextAwaited(res, tasks) ==
  Len(res) + 1

\* lines 71-84: `await task` resumes once the task is done; its response is
\* appended, or the error response when it raised
AwaitTask ==
  /\ pc = "await"
  /\ LET i == NextAwaited(results, agent_tasks)
         t == agent_tasks[i]
     IN /\ i <= Len(agent_tasks)
        /\ t.state \in {"returned", "raised"}
        /\ results' = Append(results, IF t.state = "returned" THEN t.result
                                      ELSE ErrorResponse(t.agent_type, t.exc))
        /\ pc' = AwaitNextPc(results', agent_tasks)
  /\ UNCHANGED <<agents, request, relIdx, relOutcome, relevant_agents, agent_tasks,
                 completions, exception, response>>
  /\ UNCHANGED <<healthVars, indexVars, chunkVars>>

\* lines 86-99 with _generate_summary (185-230): the completion request,
\* the fallback to the basic summary when it raises, the total, the return
GenerateSummary ==
  /\ pc = "summary"
  /\ \E reply \in ChatCompletion :
       /\ completions' = Append(completions, [purpose |-> "summary", raised |-> reply.raised])
       /\ response' = [query |-> request.prompt,
                       agents_used |-> relevant_agents,
                       results |-> results,
                       summary |-> IF reply.raised THEN BasicSummary(results)
                                   ELSE [kind |-> "ai", text |-> reply.text],
                       total_results |-> TotalResults(results)]
  /\ pc' = "done"
  /\ UNCHANGED <<agents, request, relIdx, relOutcome, relevant_agents, agent_tasks,
                 results, exception>>
  /\ UNCHANGED <<healthVars, indexVars, chunkVars>>

Next ==
  \/ ProcessQuery
  \/ IsRelevant
  \/ DetermineFallback
  \/ CreateTasks
  \/ \E i \in 1..Len(agent_tasks) : TaskStart(i)
  \/ \E i \in 1..Len(agent_tasks) : TaskFinish(i)
  \/ AwaitTask
  \/ GenerateSummary

Spec == Init /\ [][Next]_vars

\* the steps of a process_query call that has begun: those of the coroutine
\* itself and those of the search tasks it dispatched
Running ==
  \/ IsRelevant
  \/ DetermineFallback
  \/ CreateTasks
  \/ \E i \in 1..Len(agent_tasks) : TaskStart(i)
  \/ \E i \in 1..Len(agent_tasks) : TaskFinish(i)
  \/ AwaitTask
  \/ GenerateSummary

\* the event loop keeps scheduling, and every awaited call (is_relevant,
\* search, completion) returns or raises: a call that can take a step
\* eventually takes one
FairInit == Init /\ Len(agents) <= MaxFairAgents

FairSpec == FairInit /\ [][Next]_vars /\ WF_vars(Running)

\* ---- health_check ---------------------------------------------------------

\* the registry of the orchestrator whose health is checked
HealthInit ==
  /\ agents \in {SubSeq(AgentType, 1, n) : n \in 0..MaxAgents}
  /\ OrchIdle
  /\ HealthIdle
  /\ IndexIdle
  /\ ChunkerIdle

\* lines 257-260 and 262-266: the entry written for one agent
HealthEntry(agent_type, probe) ==
  IF probe.raised
  THEN [agent |-> agent_type, healthy |-> FALSE, status |-> "ERROR", error |-> probe.error]
  ELSE [agent |-> agent_type, healthy |-> probe.value,
        status |-> IF probe.value THEN "OK" ELSE "ERROR", error |-> None]

\* agent.health_check returns a boolean or raises
Probes ==
  {[raised |-> FALSE, value |-> b, error |-> None] : b \in BOOLEAN}
  \cup {[raised |-> TRUE, value |-> FALSE, error |-> e] : e \in Errors}

\* lines 250-252: health_check is called
HealthCheckCall ==
  /\ hpc = "idle"
  /\ hpc' = "probing"
  /\ hcIdx' = 1
  /\ UNCHANGED <<health_status, hcError, hcResult>>
  /\ UNCHANGED <<agents, orchVars, indexVars, chunkVars>>

\* lines 254-266: one iteration of the loop, the probe of one agent
HealthProbe ==
  /\ hpc = "probing"
  /\ hcIdx <= Len(agents)
  /\ \E probe \in Probes :
       health_status' = Append(health_status, HealthEntry(agents[hcIdx], probe))
  /\ hcIdx' = hcIdx + 1
  /\ UNCHANGED <<hpc, hcError, hcResult>>
  /\ UNCHANGED <<agents, orchVars, indexVars, chunkVars>>

\* lines 268-274: the overall flag and the returned dictionary, whose last
\* entry reads self.openai_client outside any try block
HealthReturn ==
  /\ hpc = "probing"
  /\ hcIdx > Len(agents)
  /\ IF "openai_client" \notin InstanceAttrs
     THEN /\ hpc' = "raised"
          /\ hcError' = "'AgenticOrchestrator' object has no attribute 'openai_client'"
          /\ UNCHANGED hcResult
     ELSE /\ hpc' = "returned"
          /\ hcResult' = [overall_healthy |->
                            \A i \in 1..Len(health_status) : health_status[i].healthy,
                          agents |-> health_status,
                          openai_configured |-> TRUE]
          /\ UNCHANGED hcError
  /\ UNCHANGED <<hcIdx, health_status>>
  /\ UNCHANGED <<agents, orchVars, indexVars, chunkVars>>

HealthNext ==
  \/ HealthCheckCall
  \/ HealthProbe
  \/ HealthReturn

HealthSpec == HealthInit /\ [][HealthNext]_vars

\* ---- ContentIndex ----------------------------------------------------------

\* bounds of the index model
MaxIndex == 3       \* at most this many chunks get indexed
MaxBatch == 2       \* longest list passed to add_chunks
MaxResults == 1     \* the max_results a reader passes explicitly

\* search_chunks' default max_results
DefaultMaxResults == 10

\* texts are sequences of characters
ContentA == <<"a", " ", "f", "i", "l", "e", " ", "h", "a", "d", " ", "a", "n", " ", "e", "r", "r", "o", "r", " ", "t", "o", "d", "a", "y">>
ContentB == <<"a", " ", "f", "i", "l", "e", " ", "w", "a", "s", " ", "o", "p", "e", "n", "e", "d">>
ContentC == <<"n", "o", "t", "h", "i", "n", "g", " ", "r", "e", "l", "e", "v", "a", "n", "t">>

\* the characters of these texts that re's \w matches
WordChars ==
  {"a", "d", "e", "f", "g", "h", "i", "l", "n", "o", "p", "r", "s", "t", "v", "w", "y", "F"}

\* str.lower() on one character
LowerChar(c) ==
  IF c = "F" THEN "f" ELSE c

\* str.lower()
Lower(t) == [i \in 1..Len(t) |-> LowerChar(t[i])]

\* re.findall(r'\w+', t) scanned from position i; run is where the run of
\* word characters being read began, 0 outside a run
RECURSIVE FindAll(_, _, _)
FindAll(t, i, run) ==
  IF i > Len(t) THEN (IF run = 0 THEN {} ELSE {SubSeq(t, run, Len(t))})
  ELSE IF t[i] \in WordChars THEN FindAll(t, i + 1, IF run = 0 THEN i ELSE run)
  ELSE (IF run = 0 THEN {} ELSE {SubSeq(t, run, i - 1)}) \cup FindAll(t, i + 1, 0)

\* set(re.findall(r'\w+', t)): the maximal runs of word characters of t
Words(t) == FindAll(t, 1, 0)

\* `w in t` on strings
IsSubstring(w, t) ==
  \E i \in 0..(Len(t) - Len(w)) : SubSeq(t, i + 1, i + Len(w)) = w

\* sources, as the strings "f1", "u1" and "x"
SourceF1 == <<"f", "1">>
SourceU1 == <<"u", "1">>
SourceMissing == <<"x">>

\* lines 27-28: hashlib.md5(t.encode()).hexdigest()[:8], a value that
\* depends on the text alone and has a finite range, so that different texts
\* can share it; here the range is 0..7
Md5Prefix(t) ==
  Len(t) % 8

\* lines 25-29: _generate_chunk_id, the three parts of the formatted string
GenerateChunkId(content, source, source_type) ==
  <<source_type, Md5Prefix(source), Md5Prefix(content)>>

\* lines 17-23: ContentChunk(content, source, source_type)
ContentChunk(content, source, source_type) ==
  [content |-> content, source |-> source, source_type |-> source_type,
   chunk_id |-> GenerateChunkId(content, source, source_type)]

\* the ContentChunk objects the ingestion tasks build
ChunkPool ==
  {ContentChunk(ContentA, SourceF1, "file"),
   ContentChunk(ContentB, SourceF1, "file"),
   ContentChunk(ContentB, SourceU1, "url"),
   ContentChunk(ContentC, SourceU1, "url")}

\* the lists passed to add_chunks
Batches == SeqsUpTo(ChunkPool, MaxBatch)

\* the arguments readers pass
Queries == {<<"f", "i", "l", "e", " ", "e", "r", "r", "o", "r">>, <<"F", "i", "l", "e", " ", "o", "p", "e", "n">>}
SourceTypeArgs == {<<>>, <<"url", "file">>, <<"jira">>}
MaxResultsArgs == {MaxResults, DefaultMaxResults}
SourceArgs == {SourceF1, SourceMissing}
TypeArgs == {"file", "jira"}

\* dict.get(k, [])
DictGet(d, k) == IF k \in DOMAIN d THEN d[k] ELSE <<>>

BucketAppendReset(d, k, chunk) ==
  [x \in DOMAIN d \cup {k} |-> IF x = k THEN <<chunk>> ELSE d[x]]

\* lines 203-205 and 208-210: create the bucket when the key is new, append
BucketAppend(d, k, chunk) ==
  IF k \notin DOMAIN d THEN d @@ (k :> <<chunk>>)
  ELSE [d EXCEPT ![k] = Append(@, chunk)]

ListAppendUnlessKnownId(list, chunk) ==
  IF \E i \in 1..Len(list) : list[i].chunk_id = chunk.chunk_id THEN list
  ELSE Append(list, chunk)

ListPrepend(list, chunk) ==
  <<chunk>> \o list

\* line 200: self.chunks.append(chunk)
ListAppend(list, chunk) ==
  Append(list, chunk)

\* lines 199-210: add_chunks on the three views ix, chunk by chunk
RECURSIVE AddAll(_, _)
AddAll(ix, batch) ==
  IF batch = <<>> THEN ix
  ELSE LET chunk == Head(batch)
       IN AddAll([chunks |-> ListAppend(ix.chunks, chunk),
                  index_by_source |-> BucketAppend(ix.index_by_source, chunk.source, chunk),
                  index_by_type |-> BucketAppend(ix.index_by_type, chunk.source_type, chunk)],
                 Tail(batch))

\* lines 235-254: _calculate_relevance_score, doubled to stay integral
\* (exact_matches * 4 + partial_matches * 2 + phrase_matches)
\* lines 243-246: the loop that counts the partial matches, 0.5 each
RECURSIVE PartialMatches2(_, _)
PartialMatches2(query_words, content_words) ==
  IF query_words = {} THEN 0
  ELSE LET query_word == CHOOSE w \in query_words : TRUE
       IN (IF \E content_word \in content_words : IsSubstring(query_word, content_word)
           THEN 1 ELSE 0)
          + PartialMatches2(query_words \ {query_word}, content_words)

\* lines 249-252: the loop that counts the phrase matches
RECURSIVE PhraseMatches(_, _)
PhraseMatches(query_words, content) ==
  IF query_words = {} THEN 0
  ELSE LET query_word == CHOOSE w \in query_words : TRUE
       IN (IF IsSubstring(query_word, content) THEN 1 ELSE 0)
          + PhraseMatches(query_words \ {query_word}, content)

CalculateRelevanceScoreHeavyPhrase(content, query_words) ==
  LET content_words == Words(content)
      exact_matches == Cardinality(query_words \cap content_words)
  IN exact_matches * 4 + PartialMatches2(query_words, content_words)
     + PhraseMatches(query_words, content) * 2

\* line 254, on the counts of lines 237-252
CalculateRelevanceScore2(content, query_words) ==
  LET content_words == Words(content)
      exact_matches == Cardinality(query_words \cap content_words)
  IN exact_matches * 4 + PartialMatches2(query_words, content_words)
     + PhraseMatches(query_words, content)

\* lines 220-224: the list search_chunks scans
RECURSIVE ExtendByTypes(_, _)
ExtendByTypes(by_type, source_types) ==
  IF source_types = <<>> THEN <<>>
  ELSE DictGet(by_type, Head(source_types)) \o ExtendByTypes(by_type, Tail(source_types))

Candidates(all, by_type, source_types) ==
  IF source_types # <<>> THEN ExtendByTypes(by_type, source_types) ELSE all

SortInsertBeforeTies(sorted, entry) ==
  LET n == Cardinality({i \in 1..Len(sorted) : sorted[i].score > entry.score})
  IN SubSeq(sorted, 1, n) \o <<entry>> \o SubSeq(sorted, n + 1, Len(sorted))

\* line 232: list.sort(key=score, reverse=True) is stable: an entry goes
\* behind the entries already placed whose score is at least its own
SortInsert(sorted, entry) ==
  LET n == Cardinality({i \in 1..Len(sorted) : sorted[i].score >= entry.score})
  IN SubSeq(sorted, 1, n) \o <<entry>> \o SubSeq(sorted, n + 1, Len(sorted))

RECURSIVE SortByScore(_)
SortByScore(scored) ==
  IF scored = <<>> THEN <<>>
  ELSE SortInsert(SortByScore(SubSeq(scored, 1, Len(scored) - 1)), scored[Len(scored)])

\* lines 214-232: the scored candidates of search_chunks, sorted
ScoredChunks(all, by_type, query, source_types) ==
  LET query_words == Words(Lower(query))
      search_chunks == Candidates(all, by_type, source_types)
      entries == [i \in 1..Len(search_chunks) |->
                    [chunk |-> search_chunks[i],
                     score |-> CalculateRelevanceScore2(Lower(search_chunks[i].content),
                                                        query_words)]]
  IN SortByScore(SelectSeq(entries, LAMBDA e : e.score > 0))

\* line 233: [chunk for chunk, score in scored_chunks[:max_results]]
TopChunks(scored_chunks, max_results) ==
  LET n == IF max_results < Len(scored_chunks) THEN max_results ELSE Len(scored_chunks)
  IN [i \in 1..n |-> scored_chunks[i].chunk]

\* the module-level content_index (line 274), shared by every task
IndexInit ==
  /\ chunks = <<>>
  /\ index_by_source = EmptyDict
  /\ index_by_type = EmptyDict
  /\ observed = [op |-> "none"]
  /\ agents = <<>>
  /\ OrchIdle
  /\ HealthIdle
  /\ ChunkerIdle

\* lines 197-210: one add_chunks call of an ingestion task; it runs on the
\* event loop without an await, so no other task runs inside it
AddChunks ==
  /\ \E batch \in Batches :
       /\ Len(chunks) + Len(batch) <= MaxIndex
       /\ LET ix == AddAll([chunks |-> chunks, index_by_source |-> index_by_source,
                            index_by_type |-> index_by_type], batch)
          IN /\ chunks' = ix.chunks
             /\ index_by_source' = ix.index_by_source
             /\ index_by_type' = ix.index_by_type
       /\ observed' = [op |-> "add_chunks", batch |-> batch]
  /\ UNCHANGED <<agents, orchVars, healthVars, chunkVars>>

\* lines 212-233: a search_chunks call
SearchChunks ==
  /\ \E query \in Queries, source_types \in SourceTypeArgs :
       LET scored_chunks == ScoredChunks(chunks, index_by_type, query, source_types)
       IN \E max_results \in MaxResultsArgs :
            observed' = [op |-> "search_chunks", query |-> query,
                         source_types |-> source_types, max_results |-> max_results,
                         scored_chunks |-> scored_chunks,
                         result |-> TopChunks(scored_chunks, max_results)]
  /\ UNCHANGED <<chunks, index_by_source, index_by_type>>
  /\ UNCHANGED <<agents, orchVars, healthVars, chunkVars>>

\* lines 256-258
GetChunksBySource ==
  /\ \E source \in SourceArgs :
       observed' = [op |-> "get_chunks_by_source", key |-> source,
                    result |-> DictGet(index_by_source, source)]
  /\ UNCHANGED <<chunks, index_by_source, index_by_type>>
  /\ UNCHANGED <<agents, orchVars, healthVars, chunkVars>>

\* lines 260-262
GetChunksByType ==
  /\ \E source_type \in TypeArgs :
       observed' = [op |-> "get_chunks_by_type", key |-> source_type,
                    result |-> DictGet(index_by_type, source_type)]
  /\ UNCHANGED <<chunks, index_by_source, index_by_type>>
  /\ UNCHANGED <<agents, orchVars, healthVars, chunkVars>>

\* lines 264-271; source_types is kept as the set of the keys
GetStats ==
  /\ observed' = [op |-> "get_stats",
                  total_chunks |-> Len(chunks),
                  sources |-> Cardinality(DOMAIN index_by_source),
                  source_types |-> DOMAIN index_by_type,
                  chunks_by_type |-> [k \in DOMAIN index_by_type |-> Len(index_by_type[k])]]
  /\ UNCHANGED <<chunks, index_by_source, index_by_type>>
  /\ UNCHANGED <<agents, orchVars, healthVars, chunkVars>>

IndexNext ==
  \/ AddChunks
  \/ SearchChunks
  \/ GetChunksBySource
  \/ GetChunksByType
  \/ GetStats

IndexSpec == IndexInit /\ [][IndexNext]_vars

\* ---- ContentProcessor.chunk_text ------------------------------------------

\* bounds of the chunker model
MaxTextLen == 4     \* longest of the short texts
MaxChunkSize == 3   \* largest of the small chunk_size and overlap_size values

\* lines 87-88: how far around preferred_end a sentence ending is looked for
BoundaryWindow == 100

\* line 91; the last ending is two characters long
SentenceEndings == <<<<".">>, <<"!">>, <<"?">>, <<"\n", "\n">>>>

\* the characters str.strip() removes, among those the texts use
Whitespace == {" ", "\n"}

\* the characters of the short texts
Alphabet == {"a", ".", " ", "\n"}

ShortTexts == SeqsUpTo(Alphabet, MaxTextLen)

\* a text of n characters "a", except at the 0-based positions of marks
Marked(n, marks) ==
  [i \in 1..n |-> IF (i - 1) \in DOMAIN marks THEN marks[i - 1] ELSE "a"]

\* texts longer than BoundaryWindow and than a chunk of 100 characters
LongTexts ==
  {Marked(250, EmptyDict),
   Marked(250, 95 :> "."),
   Marked(250, (60 :> ".") @@ (98 :> "?")),
   Marked(250, 230 :> ".")}

\* the texts a processor with chunk_size size is given: the long ones go to
\* the processors whose chunk_size is beyond the small values
Texts(size) ==
  IF size > MaxChunkSize THEN ShortTexts \cup LongTexts ELSE ShortTexts

\* the (chunk_size, overlap_size) pairs a ContentProcessor is built with;
\* chunk_size is at least 1
SizeArgs ==
  ((1..MaxChunkSize) \X (0..MaxChunkSize)) \cup {<<100, 20>>}

Max2(a, b) == IF a >= b THEN a ELSE b
Min2(a, b) == IF a <= b THEN a ELSE b

\* t[lo:hi] for 0 <= lo, with hi clamped to len(t) as slicing does
Slice(t, lo, hi) == SubSeq(t, lo + 1, Min2(hi, Len(t)))

\* str.strip()
RECURSIVE LStrip(_)
LStrip(t) ==
  IF t # <<>> /\ Head(t) \in Whitespace THEN LStrip(Tail(t)) ELSE t

RECURSIVE RStrip(_)
RStrip(t) ==
  IF t # <<>> /\ t[Len(t)] \in Whitespace THEN RStrip(SubSeq(t, 1, Len(t) - 1)) ELSE t

Strip(t) == RStrip(LStrip(t))

\* t.rfind(sub, lo, hi): the highest 0-based index at which sub occurs inside
\* t[lo:hi], -1 when there is none
RFind(t, sub, lo, hi) ==
  LET found == {i \in lo..(hi - Len(sub)) : SubSeq(t, i + 1, i + Len(sub)) = sub}
  IN IF found = {} THEN -1 ELSE CHOOSE i \in found : \A j \in found : j <= i

\* lines 93-97: the endings are tried in list order, the first that occurs
\* after search_start decides
RECURSIVE TryEndings(_, _, _, _, _)
TryEndings(t, k, search_start, search_end, preferred_end) ==
  IF k > Len(SentenceEndings) THEN preferred_end
  ELSE LET pos == RFind(t, SentenceEndings[k], search_start, search_end)
       IN IF pos > search_start THEN pos + 1
          ELSE TryEndings(t, k + 1, search_start, search_end, preferred_end)

\* lines 84-99: _find_sentence_boundary
FindSentenceBoundary(t, st, preferred_end) ==
  LET search_start == Max2(st, preferred_end - BoundaryWindow)
      search_end == Min2(Len(t), preferred_end + BoundaryWindow)
  IN TryEndings(t, 1, search_start, search_end, preferred_end)

\* lines 59-66: where the chunk that begins at st ends
ChunkEnd(t, st, size) ==
  LET end == st + size
  IN IF end < Len(t)
     THEN LET sentence_end == FindSentenceBoundary(t, st, end)
          IN IF sentence_end > st THEN sentence_end ELSE end
     ELSE end

NextStartNoMax(st, end, size, overlap) ==
  st + size - overlap

NextStartByOne(st, end, size, overlap) ==
  st + 1

\* line 80: start = max(start + self.chunk_size - self.overlap_size, end)
NextStart(st, end, size, overlap) ==
  Max2(st + size - overlap, end)

\* ContentProcessor() as the module builds it (line 275), no call made yet
ChunkInit ==
  /\ ChunkerIdle
  /\ agents = <<>>
  /\ OrchIdle
  /\ HealthIdle
  /\ IndexIdle

\* lines 46-48: ContentProcessor(chunk_size, overlap_size) stores both values
Construct ==
  /\ cpc = "idle"
  /\ \E size \in SizeArgs :
       /\ chunk_size' = size[1]
       /\ overlap_size' = size[2]
  /\ cpc' = "constructed"
  /\ UNCHANGED <<text, start, emitted, iterations>>
  /\ UNCHANGED <<agents, orchVars, healthVars, indexVars>>

\* lines 50-56: chunk_text is called; a text that is empty or shorter than
\* chunk_size comes back as one chunk, as it is and with the caller's metadata
ChunkTextCall ==
  /\ cpc \in {"idle", "constructed"}
  /\ \E t \in Texts(chunk_size) :
       /\ text' = t
       /\ IF t = <<>> \/ Len(t) < chunk_size
          THEN /\ emitted' = <<[content |-> t, metadata |-> EmptyDict]>>
               /\ cpc' = "returned"
          ELSE /\ emitted' = <<>>
               /\ cpc' = "loop"
  /\ start' = 0
  /\ iterations' = 0
  /\ UNCHANGED <<chunk_size, overlap_size>>
  /\ UNCHANGED <<agents, orchVars, healthVars, indexVars>>

\* lines 58-80: one iteration of the while loop
LoopIteration ==
  /\ cpc = "loop"
  /\ start < Len(text)
  /\ LET end == ChunkEnd(text, start, chunk_size)
         chunk_text == Strip(Slice(text, start, end))
     IN /\ emitted' =
             IF chunk_text # <<>>
             THEN Append(emitted,
                         [content |-> chunk_text,
                          metadata |-> [chunk_start |-> start, chunk_end |-> end,
                                        chunk_index |-> Len(emitted)]])
             ELSE emitted
        /\ start' = NextStart(start, end, chunk_size, overlap_size)
  /\ iterations' = iterations + 1
  /\ UNCHANGED <<chunk_size, overlap_size, text, cpc>>
  /\ UNCHANGED <<agents, orchVars, healthVars, indexVars>>

\* lines 58 and 82: the loop condition fails and chunks is returned
LoopExit ==
  /\ cpc = "loop"
  /\ start >= Len(text)
  /\ cpc' = "returned"
  /\ UNCHANGED <<chunk_size, overlap_size, text, start, emitted, iterations>>
  /\ UNCHANGED <<agents, orchVars, healthVars, indexVars>>

ChunkNext ==
  \/ Construct
  \/ ChunkTextCall
  \/ LoopIteration
  \/ LoopExit

ChunkSpec == ChunkInit /\ [][ChunkNext]_vars

\* ---- properties -----------------------------------------------------------

\* the routing of the call is over
Routed == pc \in {"routed", "await", "summary", "done"}

\* the agents whose is_relevant returned true among the first k, in
\* registration order
RECURSIVE TrueAgents(_)
TrueAgents(k) ==
  IF k = 0 THEN <<>>
  ELSE TrueAgents(k - 1) \o (IF relOutcome[k] = "true" THEN <<agents[k]>> ELSE <<>>)

RelevanceRequests == SelectSeq(completions, LAMBDA c : c.purpose = "relevance")

RECURSIVE SumLen(_)
SumLen(res) == IF res = <<>> THEN 0 ELSE Len(Head(res).data) + SumLen(Tail(res))

\* C1: process_query never propagates an exception: it always ends by
\* returning a WorkflowResponse for the request, and when an exception reached
\* its handler the response has empty agents_used, empty results and
\* total_results = 0.
C1_NeverThrows ==
  /\ pc # "propagated"
  /\ pc = "done" =>
       /\ response.query = request.prompt
       /\ response.summary.kind \in {"ai", "basic", "no_relevant_agents", "failed"}
       /\ exception # None =>
            /\ response.agents_used = <<>>
            /\ response.results = <<>>
            /\ response.total_results = 0

C1_Witness ==
  /\ pc = "done"
  /\ exception # None
  /\ Len(agents) = MaxAgents
  /\ \A i \in 1..Len(agents) : relOutcome[i] = "raised"

\* C2: a search task that raised is recorded as a failed AgentResponse of its
\* source (success false, empty data, error the exception message), every
\* task that returned has its own response in results unchanged, and no task
\* is cancelled.
C2_FailureIsolation ==
  /\ \A i \in 1..Len(results) :
       /\ agent_tasks[i].state = "raised" =>
            results[i] = [agent_type |-> relevant_agents[i], success |-> FALSE,
                          data |-> <<>>, error |-> agent_tasks[i].exc]
       /\ agent_tasks[i].state = "returned" => results[i] = agent_tasks[i].result
  /\ \A i \in 1..Len(agent_tasks) : agent_tasks[i].state # "cancelled"
  /\ (pc = "done" /\ agent_tasks # <<>>) =>
       /\ response.results = results
       /\ Len(results) = Len(agent_tasks)

C2_Witness ==
  /\ pc = "done"
  /\ Len(response.results) = 2
  /\ agent_tasks[1].state = "raised"
  /\ response.results[1].error = "connection refused"
  /\ response.results[2].success
  /\ Len(response.results[2].data) = MaxData
  /\ response.total_results = MaxData

\* C3 (as claimed): with no explicit list, no is_relevant returning true and
\* no source from the AI tier, the router selects all registered sources and
\* process_query dispatches a search to each of them.
C3_BroadcastFallback ==
  (/\ pc = "done"
   /\ request.specific_sources = <<>>
   /\ \A i \in 1..Len(agents) : relOutcome[i] # "true"
   /\ RelevanceRequests = <<>>)
  => /\ relevant_agents = agents
     /\ Len(agent_tasks) = Len(agents)
     /\ \A i \in 1..Len(agents) : agent_tasks[i].agent_type = agents[i]

\* C4: total_results of the returned response is the sum of len(data) over
\* the entries of results whose success is true.
C4_TotalResults ==
  pc = "done" =>
    response.total_results = SumLen(SelectSeq(response.results, LAMBDA r : r.success))

C4_Witness ==
  /\ pc = "done"
  /\ \E i, j \in 1..Len(response.results) :
       /\ ~response.results[i].success
       /\ Len(response.results[i].data) > 0
       /\ response.results[j].success
       /\ Len(response.results[j].data) > 0

\* C5: when process_query returns after dispatching, every task it created
\* has finished (returned or raised), and no task is ever cancelled.
C5_AllTasksFinished ==
  /\ (pc = "done" /\ agent_tasks # <<>>) =>
       \A i \in 1..Len(agent_tasks) : agent_tasks[i].state \in {"returned", "raised"}
  /\ \A i \in 1..Len(agent_tasks) : agent_tasks[i].state # "cancelled"

C5_Witness ==
  /\ pc = "done"
  /\ Len(agent_tasks) = MaxAgents
  /\ agent_tasks[1].state = "raised"
  /\ \A i \in 2..Len(agent_tasks) : agent_tasks[i].state = "returned"

\* C6: with no explicit list, once some is_relevant returned true the
\* selection is the agents whose predicate returned true, in registration
\* order, and no completion request is issued for routing.
C6_StaticTier ==
  (/\ Routed
   /\ request.specific_sources = <<>>
   /\ \E i \in 1..Len(agents) : relOutcome[i] = "true")
  => /\ relevant_agents = TrueAgents(Len(agents))
     /\ RelevanceRequests = <<>>
     /\ pc = "done" => response.agents_used = TrueAgents(Len(agents))

C6_Witness ==
  /\ pc = "done"
  /\ request.specific_sources = <<>>
  /\ Len(agents) = 3
  /\ relOutcome = <<"true", "false", "true">>
  /\ response.agents_used = <<"jira", "api">>

\* C7 (as claimed): with no explicit list, an empty static tier and a
\* configured completion backend, the router issues exactly one completion
\* request.
C7_AiTier ==
  (/\ pc = "done"
   /\ request.specific_sources = <<>>
   /\ \A i \in 1..Len(agents) : relOutcome[i] # "true"
   /\ "llm_client" \in InstanceAttrs)
  => Len(RelevanceRequests) = 1

\* C8: with a non-empty explicit list the selection is the supplied types
\* that are registered, no is_relevant is called and no completion request
\* is issued for routing.
C8_ExplicitTier ==
  (pc # "idle" /\ request.specific_sources # <<>>)
  => /\ relevant_agents =
          SelectSeq(request.specific_sources,
                    LAMBDA t : \E i \in 1..Len(agents) : agents[i] = t)
     /\ \A i \in 1..Len(agents) : relOutcome[i] = "none"
     /\ RelevanceRequests = <<>>
     /\ (pc = "done" /\ relevant_agents # <<>>) => response.agents_used = relevant_agents

C8_Witness ==
  /\ pc = "done"
  /\ Len(request.specific_sources) = 2
  /\ Len(response.agents_used) = 1
  /\ request.specific_sources[1] \notin Range(agents)

\* C9 (as claimed): the routed list never contains the same source type
\* twice, so at most one search task is created per source.
C9_NoDuplicates ==
  /\ \A i, j \in 1..Len(relevant_agents) :
       relevant_agents[i] = relevant_agents[j] => i = j
  /\ \A i, j \in 1..Len(agent_tasks) :
       agent_tasks[i].agent_type = agent_tasks[j].agent_type => i = j

\* C10 (as claimed): when an is_relevant predicate raised, the remaining
\* sources were still evaluated, the sources whose predicate returned true
\* are selected, and the query is not aborted.
C10_RelevanceFailOpen ==
  (/\ pc = "done"
   /\ request.specific_sources = <<>>
   /\ \E i \in 1..Len(agents) : relOutcome[i] = "raised")
  => /\ \A i \in 1..Len(agents) : relOutcome[i] # "none"
     /\ \A i \in 1..Len(agents) :
          relOutcome[i] = "true" => agents[i] \in Range(relevant_agents)
     /\ exception = None
     /\ response.summary.kind # "failed"

\* the summarization request of the call raised
SummaryRaised ==
  /\ completions # <<>>
  /\ completions[Len(completions)].purpose = "summary"
  /\ completions[Len(completions)].raised

\* C11: when the completion request for the summary raises, process_query
\* still returns the full agents_used, results and total_results, and the
\* summary is the basic one: the names of the successful sources, the names
\* of the failed sources (that part only when there are any) and the total
\* count; no exception reaches the handler.
C11_SummaryFallback ==
  (pc = "done" /\ SummaryRaised) =>
    LET ok == SelectSeq(results, LAMBDA r : r.success)
        ko == SelectSeq(results, LAMBDA r : ~r.success)
        sm == response.summary
    IN /\ exception = None
       /\ response.agents_used = relevant_agents
       /\ response.results = results
       /\ Len(response.results) = Len(agent_tasks)
       /\ response.total_results = SumLen(ok)
       /\ sm.kind = "basic"
       /\ sm.successful = [i \in 1..Len(ok) |-> ok[i].agent_type]
       /\ sm.failed = [i \in 1..Len(ko) |-> ko[i].agent_type]
       /\ sm.total = SumLen(ok)
       /\ ok # <<>> => sm.parts[1] = "Successfully searched"
       /\ ("Failed to search" \in Range(sm.parts)) <=> (ko # <<>>)
       /\ sm.parts[Len(sm.parts)] = "Total results found"

C11_Witness ==
  /\ pc = "done"
  /\ SummaryRaised
  /\ response.summary.successful = <<"github">>
  /\ response.summary.failed = <<"jira">>
  /\ response.summary.parts =
       <<"Successfully searched", "Failed to search", "Total results found">>
  /\ response.total_results = MaxData

\* C12 (as claimed): health_check probes every registered source, reports a
\* source whose probe raised or returned false as unhealthy in its own entry,
\* and returns the map, one entry per registered source, without raising.
C12_HealthCheck ==
  /\ hpc # "raised"
  /\ (hpc = "probing" /\ hcIdx > Len(agents)) =>
       /\ Len(health_status) = Len(agents)
       /\ \A i \in 1..Len(agents) : health_status[i].agent = agents[i]
  /\ hpc = "returned" =>
       /\ Len(hcResult.agents) = Len(agents)
       /\ \A i \in 1..Len(agents) : hcResult.agents[i].agent = agents[i]

\* the chunks of list whose source is k, in list order
OfSource(list, k) == SelectSeq(list, LAMBDA c : c.source = k)

\* the chunks of list whose source_type is k, in list order
OfType(list, k) == SelectSeq(list, LAMBDA c : c.source_type = k)

IsPrefix(s, t) == Len(s) <= Len(t) /\ SubSeq(t, 1, Len(s)) = s

ReaderOps == {"search_chunks", "get_chunks_by_source", "get_chunks_by_type", "get_stats"}

\* C13: in every state that add_chunks calls and readers can reach in any
\* order, the three views agree: the bucket of a source holds exactly the
\* occurrences in chunks of the chunks of that source, once each and in the
\* same order, likewise for the buckets of the types, there is no bucket for
\* a key that no chunk has, and what a reader returns shows the same.
C13_ViewsAgree ==
  /\ DOMAIN index_by_source = {chunks[i].source : i \in 1..Len(chunks)}
  /\ DOMAIN index_by_type = {chunks[i].source_type : i \in 1..Len(chunks)}
  /\ \A k \in DOMAIN index_by_source : index_by_source[k] = OfSource(chunks, k)
  /\ \A k \in DOMAIN index_by_type : index_by_type[k] = OfType(chunks, k)
  /\ observed.op = "get_chunks_by_source" => observed.result = OfSource(chunks, observed.key)
  /\ observed.op = "get_chunks_by_type" => observed.result = OfType(chunks, observed.key)
  /\ observed.op = "get_stats" =>
       /\ observed.total_chunks = Len(chunks)
       /\ observed.sources = Cardinality({chunks[i].source : i \in 1..Len(chunks)})
       /\ \A k \in observed.source_types :
            observed.chunks_by_type[k] = Len(OfType(chunks, k))

C13_Witness ==
  /\ Len(chunks) = MaxIndex
  /\ Cardinality(DOMAIN index_by_source) = 2
  /\ Cardinality(DOMAIN index_by_type) = 2
  /\ observed.op = "get_chunks_by_type"
  /\ observed.key = "file"
  /\ Len(observed.result) = 2
  /\ observed.result[1] # observed.result[2]

\* C14: no step removes, replaces or reorders indexed chunks: over an
\* add_chunks call the old chunks and every old bucket are a prefix of the
\* new ones and what follows is the batch in the given order (in a bucket,
\* the chunks of the batch with that key); a reader call leaves the three
\* views as they were.
C14_AppendOnly ==
  [][/\ IsPrefix(chunks, chunks')
     /\ \A k \in DOMAIN index_by_source :
          k \in DOMAIN index_by_source' /\ IsPrefix(index_by_source[k], index_by_source'[k])
     /\ \A k \in DOMAIN index_by_type :
          k \in DOMAIN index_by_type' /\ IsPrefix(index_by_type[k], index_by_type'[k])
     /\ observed'.op = "add_chunks" =>
          /\ chunks' = chunks \o observed'.batch
          /\ \A k \in DOMAIN index_by_source' :
               index_by_source'[k] = DictGet(index_by_source, k) \o OfSource(observed'.batch, k)
          /\ \A k \in DOMAIN index_by_type' :
               index_by_type'[k] = DictGet(index_by_type, k) \o OfType(observed'.batch, k)
     /\ observed'.op \in ReaderOps => UNCHANGED <<chunks, index_by_source, index_by_type>>
    ]_vars

C14_Witness ==
  /\ observed.op = "add_chunks"
  /\ Len(observed.batch) = MaxBatch
  /\ observed.batch[1] # observed.batch[2]
  /\ Len(chunks) = MaxIndex
  /\ chunks[1] # observed.batch[1]
  /\ chunks[1].source = observed.batch[2].source

\* the candidate sequence the observed search_chunks call scanned
Scanned == Candidates(chunks, index_by_type, observed.source_types)

\* twice the scores of the scanned candidates, in scanned order
ScannedScores ==
  LET query_words == Words(Lower(observed.query))
  IN [i \in 1..Len(Scanned) |->
        CalculateRelevanceScore2(Lower(Scanned[i].content), query_words)]

\* the place of candidate i in the descending order of the scores sc that
\* keeps candidates of equal score in scanned order, zero scores left out
Rank(sc, i) ==
  1 + Cardinality({j \in 1..Len(sc) :
                     /\ sc[j] > 0
                     /\ sc[j] > sc[i] \/ (sc[j] = sc[i] /\ j < i)})

\* C15: search_chunks returns the first max_results elements of the list of
\* the candidates of score > 0 sorted by descending score, candidates of equal
\* score in their scanned order; no chunk of score 0 is returned and a chunk
\* of higher score comes before one of lower score.
C15_SearchOrder ==
  observed.op = "search_chunks" =>
    LET sc == ScannedScores
        positive == {i \in 1..Len(sc) : sc[i] > 0}
        n == IF observed.max_results < Cardinality(positive)
             THEN observed.max_results ELSE Cardinality(positive)
    IN /\ Len(observed.result) = n
       /\ \A i \in positive : Rank(sc, i) <= n => observed.result[Rank(sc, i)] = Scanned[i]
       /\ \A i \in 1..Len(sc) : sc[i] = 0 => Scanned[i] \notin Range(observed.result)

C15_Witness ==
  /\ observed.op = "search_chunks"
  /\ observed.query = <<"f", "i", "l", "e", " ", "e", "r", "r", "o", "r">>
  /\ observed.source_types = <<"url", "file">>
  /\ observed.max_results = DefaultMaxResults
  /\ chunks = <<ContentChunk(ContentB, SourceF1, "file"),
                ContentChunk(ContentA, SourceF1, "file"),
                ContentChunk(ContentB, SourceU1, "url")>>
  /\ observed.result = <<chunks[2], chunks[3], chunks[1]>>

\* the three counts of the score, each as the size of a set
ExactCount(content, query_words) == Cardinality(query_words \cap Words(content))

PartialCount(content, query_words) ==
  Cardinality({w \in query_words : \E cw \in Words(content) : IsSubstring(w, cw)})

PhraseCount(content, query_words) ==
  Cardinality({w \in query_words : IsSubstring(w, content)})

\* C16: the score of a content for a set of query words is 2 x (query words
\* that are content words) + 0.5 x (query words that are a substring of some
\* content word) + 0.5 x (query words that are a substring of the lowercased
\* content); compared here on twice the score, for every candidate the
\* observed search_chunks call scored: a candidate is in scored_chunks with
\* that score when it is > 0 and is not in scored_chunks when it is 0.
C16_ScoreFormula ==
  observed.op = "search_chunks" =>
    \A i \in 1..Len(Scanned) :
      LET content == Lower(Scanned[i].content)
          query_words == Words(Lower(observed.query))
          twice == 4 * ExactCount(content, query_words)
                   + PartialCount(content, query_words)
                   + PhraseCount(content, query_words)
          entries == {e \in Range(observed.scored_chunks) : e.chunk = Scanned[i]}
      IN /\ \A e \in entries : e.score = twice
         /\ (entries # {}) <=> (twice > 0)

C16_Witness ==
  /\ observed.op = "search_chunks"
  /\ observed.query = <<"F", "i", "l", "e", " ", "o", "p", "e", "n">>
  /\ \E e \in Range(observed.scored_chunks) : e.chunk.content = ContentB /\ e.score = 8
  /\ \E e \in Range(observed.scored_chunks) : e.chunk.content = ContentA /\ e.score = 6
  /\ \E i \in 1..Len(Scanned) : Scanned[i].content = ContentC

\* the text holds none of the sentence endings
NoTerminator(t) ==
  \A k \in 1..Len(SentenceEndings) : RFind(t, SentenceEndings[k], 0, Len(t)) = -1

\* the [chunk_start, chunk_end) pairs of the returned chunks
Spans == [k \in 1..Len(emitted) |->
            <<emitted[k].metadata.chunk_start, emitted[k].metadata.chunk_end>>]

\* C17 (as claimed): for a text without sentence terminator of length
\* L >= chunk_size, with chunk_size > overlap_size >= 0, the k-th chunk
\* (counted from 0) starts at k x (chunk_size - overlap_size), every chunk but
\* the last spans chunk_size characters and the last one ends at L; 250
\* characters with chunk_size 100 and overlap_size 20 give [0,100), [80,180),
\* [160,250).
C17_NoTerminatorChunks ==
  (/\ cpc = "returned"
   /\ Len(text) >= chunk_size
   /\ chunk_size > overlap_size
   /\ overlap_size >= 0
   /\ NoTerminator(text)) =>
    /\ \A k \in 1..Len(emitted) : Spans[k][1] = (k - 1) * (chunk_size - overlap_size)
    /\ \A k \in 1..(Len(emitted) - 1) : Spans[k][2] - Spans[k][1] = chunk_size
    /\ emitted # <<>> => Spans[Len(emitted)][2] = Len(text)
    /\ (text = Marked(250, EmptyDict) /\ chunk_size = 100 /\ overlap_size = 20) =>
         Spans = <<<<0, 100>>, <<80, 180>>, <<160, 250>>>>

\* C18 (as claimed): for a text of length L >= chunk_size and
\* chunk_size > overlap_size > 0, the chunk_end values of the returned chunks
\* never decrease along the list and the last one equals L.
C18_ChunkEnds ==
  (/\ cpc = "returned"
   /\ Len(text) >= chunk_size
   /\ chunk_size > overlap_size
   /\ overlap_size > 0) =>
    /\ \A k \in 1..(Len(emitted) - 1) : Spans[k][2] <= Spans[k + 1][2]
    /\ emitted # <<>> => Spans[Len(emitted)][2] = Len(text)

\* ceil(n / d) for d > 0
CeilDiv(n, d) == (n + d - 1) \div d

\* C19: with chunk_size C > overlap_size O > 0 and a text of length L,
\* chunk_text terminates: its loop runs at most ceil(L / (C - O)) iterations,
\* every iteration moves start forward by at least C - O, so that after the
\* last of them the loop condition is false and the list is returned; the
\* list holds at most one chunk per iteration, hence at most
\* ceil(L / (C - O)) + 1 chunks (one chunk when the loop is not entered).
C19_TerminatesBounded ==
  (chunk_size > overlap_size /\ overlap_size > 0 /\ cpc \in {"loop", "returned"}) =>
    LET most == CeilDiv(Len(text), chunk_size - overlap_size)
    IN /\ iterations <= most
       /\ start >= iterations * (chunk_size - overlap_size)
       /\ (cpc = "loop" /\ iterations = most) => start >= Len(text)
       /\ Len(emitted) <= most + 1
       /\ (cpc = "loop" \/ iterations > 0) => Len(emitted) <= iterations

C19_Witness ==
  /\ cpc = "returned"
  /\ chunk_size > overlap_size
  /\ overlap_size > 0
  /\ Len(text) > chunk_size
  /\ iterations = CeilDiv(Len(text), chunk_size - overlap_size)
  /\ Len(emitted) = iterations
  /\ iterations >= 2

\* C20 (as claimed): a ContentProcessor with chunk_size <= overlap_size is
\* rejected when it is constructed, so none exists and none chunks a text.
C20_RejectsBadSizes ==
  cpc \in {"constructed", "loop", "returned"} => chunk_size > overlap_size

\* how many elements of list carry chunk_id id
CountId(list, id) == Len(SelectSeq(list, LAMBDA c : c.chunk_id = id))

C22_EmptyExplicitFallsThrough ==
  (/\ pc # "idle"
   /\ request.specific_sources # <<>>
   /\ \A i \in 1..Len(request.specific_sources) :
        request.specific_sources[i] \notin Range(agents)) =>
    /\ relIdx >= 1
    /\ pc = "done" => (response.agents_used # <<>> \/ exception # None \/ agents = <<>>)

\* C23 (as claimed): when chunk_text returns more than one chunk and
\* overlap_size > 0, each chunk starts strictly before the end of the chunk
\* that precedes it.
C23_ConsecutiveOverlap ==
  (cpc = "returned" /\ Len(emitted) > 1 /\ overlap_size > 0) =>
    \A k \in 1..(Len(emitted) - 1) : Spans[k + 1][1] < Spans[k][2]

\* the 0-based positions, past search_start, at which some sentence ending
\* occurs inside t[search_start:search_end]
TerminatorPositions(t, search_start, search_end) ==
  {pos \in (search_start + 1)..(search_end - 1) :
     \E k \in 1..Len(SentenceEndings) :
       /\ pos + Len(SentenceEndings[k]) <= search_end
       /\ SubSeq(t, pos + 1, pos + Len(SentenceEndings[k])) = SentenceEndings[k]}

\* the boundary the claim describes for a chunk that begins at st
RightmostBoundary(t, st, size) ==
  LET end == st + size
      found == TerminatorPositions(t, Max2(st, end - BoundaryWindow),
                                   Min2(Len(t), end + BoundaryWindow))
  IN IF end < Len(t) /\ found # {}
     THEN 1 + CHOOSE pos \in found : \A other \in found : other <= pos
     ELSE end

\* C24 (as claimed): when start + chunk_size lies before the end of the text,
\* the chunk ends just after the rightmost sentence ending of any kind found
\* in the window past its start, and at start + chunk_size when there is none.
C24_RightmostTerminator ==
  cpc \in {"loop", "returned"} =>
    \A k \in 1..Len(emitted) :
      emitted[k].metadata # EmptyDict =>
        Spans[k][2] = RightmostBoundary(text, Spans[k][1], chunk_size)

\* C28 (as claimed): with len(text) >= chunk_size and
\* chunk_size > overlap_size >= 0, every iteration starts at or before the
\* end of the iteration before it, so no character is skipped.
C28_NoGap ==
  [][(/\ cpc = "loop"
      /\ iterations' = iterations + 1
      /\ chunk_size > overlap_size
      /\ overlap_size >= 0
      /\ Len(text) >= chunk_size) =>
       start' <= ChunkEnd(text, start, chunk_size)]_vars

\* C29: for every chunk_size >= 1 and overlap_size >= 0, overlap_size >=
\* chunk_size included, every loop iteration runs with start inside the text
\* and leaves start strictly larger, so the number of iterations never
\* exceeds start, hence never the length of the text: chunk_text terminates.
C29_StartIncreases ==
  [][(cpc = "loop" /\ iterations' = iterations + 1) =>
       /\ chunk_size >= 1
       /\ overlap_size >= 0
       /\ start < Len(text)
       /\ start' > start
       /\ iterations' <= start']_vars

C29_Witness ==
  /\ cpc = "returned"
  /\ overlap_size > chunk_size
  /\ iterations = MaxTextLen
  /\ start = Len(text)

\* the indexed chunks whose type is among types, in insertion order, once each
InInsertionOrder(types) ==
  SelectSeq(chunks, LAMBDA c : c.source_type \in Range(types))

\* C25 (as claimed): with a non-empty source_types, search_chunks scans the
\* chunks of the requested types in index-insertion order, each once, so that
\* its result is the one computed from that sequence, whatever the order of
\* the types in source_types.
C25_InsertionOrderCandidates ==
  (observed.op = "search_chunks" /\ observed.source_types # <<>>) =>
    /\ Scanned = InInsertionOrder(observed.source_types)
    /\ observed.result =
         TopChunks(ScoredChunks(InInsertionOrder(observed.source_types), EmptyDict,
                                observed.query, <<>>),
                   observed.max_results)

\* C26: the search task of every selected source exists before any of them
\* is awaited: whenever process_query is suspended on a task, or has
\* collected an outcome, there is one task per selected source, in selection
\* order, and a task runs and finishes whether or not the tasks before it
\* have finished.
C26_TasksBeforeAwait ==
  (pc \in {"await", "summary"} \/ results # <<>>) =>
    /\ Len(agent_tasks) = Len(relevant_agents)
    /\ \A i \in 1..Len(relevant_agents) : agent_tasks[i].agent_type = relevant_agents[i]

C26_Witness ==
  /\ pc = "await"
  /\ results = <<>>
  /\ Len(agent_tasks) = MaxAgents
  /\ agent_tasks[1].state = "running"
  /\ \A i \in 2..Len(agent_tasks) : agent_tasks[i].state \in {"returned", "raised"}

\* the outcome process_query records for task t
OutcomeOf(t) ==
  IF t.state = "returned" THEN t.result ELSE ErrorResponse(t.agent_type, t.exc)

\* C30: the outcomes are collected in selection order whatever order the
\* tasks finish in: at any moment results[i] is the outcome of the task
\* dispatched for relevant_agents[i], and on the normal return results has
\* the length of agents_used and results[i] belongs to agents_used[i].
C30_ResultsInSelectionOrder ==
  /\ Len(results) <= Len(agent_tasks)
  /\ \A i \in 1..Len(results) :
       /\ agent_tasks[i].state \in {"returned", "raised"}
       /\ agent_tasks[i].agent_type = relevant_agents[i]
       /\ results[i] = OutcomeOf(agent_tasks[i])
       /\ results[i].agent_type = relevant_agents[i]
  /\ (pc = "done" /\ exception = None /\ agent_tasks # <<>>) =>
       /\ response.agents_used = relevant_agents
       /\ response.results = results
       /\ Len(response.results) = Len(response.agents_used)

C30_Witness ==
  /\ pc = "await"
  /\ Len(agent_tasks) = MaxAgents
  /\ Len(results) = 1
  /\ results[1].agent_type = relevant_agents[1]
  /\ agent_tasks[2].state = "running"
  /\ agent_tasks[MaxAgents].state = "returned"

\* C27: under fair scheduling, with every awaited call returning or raising,
\* every process_query call that was made eventually returns a
\* WorkflowResponse for its request.
C27_EventuallyReturns ==
  (pc # "idle") ~> (pc = "done" /\ response # NoResponse /\ response.query = request.prompt)

C27_Witness ==
  /\ pc = "done"
  /\ exception = None
  /\ Len(response.results) = MaxFairAgents
  /\ \A i \in 1..Len(agent_tasks) : agent_tasks[i].state = "raised"
  /\ SummaryRaised
  /\ response.total_results = 0

====
